---- MODULE Spec2Model ----
(***************************************************************************)
(* Model of neutron/db/mplsvpn/mplsvpn_db.py: the MPLS VPN service plugin  *)
(* database class (MPLSVPNPluginDb) over its five tables and the networks  *)
(* table they reference.                                                   *)
(*                                                                         *)
(* A request runs in its own SQLAlchemy session.  A handler is a sequence  *)
(* of statements (queries, adds, deletes, the exit of its `with            *)
(* context.session.begin(subtransactions=True)` block); Step is one        *)
(* statement, Run is the handler run to its end.  Spec runs every handler  *)
(* to completion in one action; SpecConc lets the statements of two        *)
(* requests interleave.                                                    *)
(*                                                                         *)
(* The session is the one neutron builds: autocommit=True, autoflush on.   *)
(* Inside a begin() block writes are held by the transaction and are seen  *)
(* by that session's own queries only, until the block exits; outside one, *)
(* every flush commits at once.  The storage engine enforces the declared  *)
(* foreign keys and takes no lock for the plugin.  The context is an admin *)
(* context (no tenant filter on queries by id).                            *)
(***************************************************************************)
EXTENDS Integers, Sequences, FiniteSets, TLC

(***************************************************************************)
(* Bounds of the model.                                                    *)
(***************************************************************************)
\* how many ids uuidutils.generate_uuid() hands out, per kind of row
MaxVpn == 2
MaxAc == 2
MaxPe == 1
MaxAssoc == 2
\* longest attachment_circuits / networks list of a payload
MaxLen == 2
\* rows of the networks table (owned by the core plugin)
NumNetworks == 1

Tenants == {"t1", "t2"}
Sessions == {"s1", "s2"}

Tables == {"mplsvpns", "attachmentcircuits", "provideredges",
           "acmplsvpnassociations", "acnetworkassociations", "networks"}

\* neutron.plugins.common.constants
ACTIVE == "ACTIVE"
PENDING_CREATE == "PENDING_CREATE"
DOWN == "DOWN"

VpnIds == 1..MaxVpn
AcIds == 1..MaxAc
PeIds == 1..MaxPe
\* NumNetworks + 1 is the id of no network
NetIds == 1..(NumNetworks + 1)

RECURSIVE SeqsUpTo(_, _)
SeqsUpTo(S, n) ==
    IF n = 0 THEN {<<>>}
    ELSE LET shorter == SeqsUpTo(S, n - 1)
         IN  shorter \cup {Append(q, x) : q \in shorter, x \in S}

Range(q) == {q[k] : k \in 1..Len(q)}

EmptyTables == [t \in Tables |-> {}]

(***************************************************************************)
(* The schema: the rows of each table and the declared foreign keys.       *)
(***************************************************************************)
\* class ProviderEdge
ProviderEdge(id, name) == [id |-> id, name |-> name]

\* class AttachmentCircuit
AttachmentCircuit(id, name, tenant_id, network_type, provider_edge_id) ==
    [id |-> id, name |-> name, tenant_id |-> tenant_id,
     network_type |-> network_type, provider_edge_id |-> provider_edge_id]

\* class MPLSVPN
MPLSVPN(id, tenant_id, name, tunnel_type, tunnel_backup, qos, bandwidth, status, vpn_id) ==
    [id |-> id, tenant_id |-> tenant_id, name |-> name,
     tunnel_type |-> tunnel_type, tunnel_backup |-> tunnel_backup,
     qos |-> qos, bandwidth |-> bandwidth, status |-> status,
     vpn_id |-> vpn_id]

\* class ACMPLSVPNAssociation
ACMPLSVPNAssociation(id, mplsvpn_id, attachmentcircuit_id, status) ==
    [id |-> id, mplsvpn_id |-> mplsvpn_id,
     attachmentcircuit_id |-> attachmentcircuit_id, status |-> status]

\* class ACNetworkAssociation
ACNetworkAssociation(id, attachmentcircuit_id, network_id, status) ==
    [id |-> id, attachmentcircuit_id |-> attachmentcircuit_id,
     network_id |-> network_id, status |-> status]

\* as ForeignKeys, but provider_edge_id is a plain column
ForeignKeys_no_provider_edge ==
    {[table |-> "acnetworkassociations", column |-> "attachmentcircuit_id",
      reftable |-> "attachmentcircuits"],
     [table |-> "acnetworkassociations", column |-> "network_id",
      reftable |-> "networks"],
     [table |-> "acmplsvpnassociations", column |-> "mplsvpn_id",
      reftable |-> "mplsvpns"],
     [table |-> "acmplsvpnassociations", column |-> "attachmentcircuit_id",
      reftable |-> "attachmentcircuits"]}

\* as ForeignKeys, but ACMPLSVPNAssociation.attachmentcircuit_id is a plain
\* column
ForeignKeys_no_member_circuit ==
    {[table |-> "attachmentcircuits", column |-> "provider_edge_id",
      reftable |-> "provideredges"],
     [table |-> "acnetworkassociations", column |-> "attachmentcircuit_id",
      reftable |-> "attachmentcircuits"],
     [table |-> "acnetworkassociations", column |-> "network_id",
      reftable |-> "networks"],
     [table |-> "acmplsvpnassociations", column |-> "mplsvpn_id",
      reftable |-> "mplsvpns"]}

\* every sa.ForeignKey of the module
ForeignKeys ==
    {[table |-> "attachmentcircuits", column |-> "provider_edge_id",
      reftable |-> "provideredges"],
     [table |-> "acnetworkassociations", column |-> "attachmentcircuit_id",
      reftable |-> "attachmentcircuits"],
     [table |-> "acnetworkassociations", column |-> "network_id",
      reftable |-> "networks"],
     [table |-> "acmplsvpnassociations", column |-> "mplsvpn_id",
      reftable |-> "mplsvpns"],
     [table |-> "acmplsvpnassociations", column |-> "attachmentcircuit_id",
      reftable |-> "attachmentcircuits"]}

\* the orm.relationship(..., cascade="all") of a model: the association
\* table whose rows are deleted with the parent row, and its two key columns
Relationship(model) ==
    CASE model = "mplsvpns" ->
            [table |-> "acmplsvpnassociations", parent |-> "mplsvpn_id",
             child |-> "attachmentcircuit_id"]
      [] model = "attachmentcircuits" ->
            [table |-> "acnetworkassociations",
             parent |-> "attachmentcircuit_id", child |-> "network_id"]
      [] OTHER -> [table |-> "none", parent |-> "none", child |-> "none"]

Ids(rows) == {r.id : r \in rows}

\* the row of smallest id: what Query.first() and a loop over Query.all()
\* take next (the storage engine returns rows in primary-key order)
First(rows) == CHOOSE r \in rows : \A q \in rows : r.id <= q.id

(***************************************************************************)
(* A session.  c is a configuration [st, db, ids]: the request's session   *)
(* and local variables, the committed tables, the next unused ids.         *)
(***************************************************************************)
NoArgs ==
    [op |-> "none", id |-> 0, tenant_id |-> "", has_list |-> FALSE,
     list |-> <<>>, name |-> "", status |-> "", tunnel_options |-> <<>>,
     has_tunnel_options |-> FALSE, vpn_id |-> "", network_type |-> "",
     provider_edge_id |-> 0, network_id |-> 0]

Idle ==
    [pc |-> "idle", args |-> NoArgs,
     \* depth of nested begin(subtransactions=True) blocks, and the
     \* transaction's rows deleted and inserted so far
     depth |-> 0, del |-> EmptyTables, ins |-> EmptyTables,
     \* locals: the parent id, the rows of assocs still to loop over, the
     \* index into the list, the object fetched, where the reconcile
     \* returns to
     obj |-> 0, assocs |-> {}, i |-> 0, loaded |-> {},
     cont |-> "",
     \* what the handler did: session.delete() and append() calls, the
     \* exception it raised with the ids it carries
     ndel |-> 0, nins |-> 0,
     err |-> "none", err_id |-> 0, err_tenant |-> "",
     \* the id of the row whose projection the handler returns
     ret |-> 0,
     \* history: the committed tables when the handler was called, and
     \* whether the call before it was the same call and returned normally
     pre |-> EmptyTables, repeat |-> FALSE]

\* what the session's queries see: the committed rows, less the rows its
\* transaction deleted, plus the rows it inserted
View(st, db) == [t \in Tables |-> (db[t] \ st.del[t]) \cup st.ins[t]]

\* as session_begin, but no transaction is begun: the session stays in
\* autocommit mode
session_begin_autocommit(c) == c

\* session.begin(subtransactions=True): enter a (nested) transaction block
session_begin(c) == [c EXCEPT !.st.depth = @ + 1]

\* leaving a begin() block normally: the outermost block commits
session_exit(c) ==
    IF c.st.depth = 1
    THEN [c EXCEPT !.st.depth = 0,
                   !.st.del = EmptyTables, !.st.ins = EmptyTables,
                   !.db = View(c.st, c.db)]
    ELSE [c EXCEPT !.st.depth = IF @ > 0 THEN @ - 1 ELSE 0]

\* the handler has returned or raised: its locals are gone
Finished(st) ==
    [st EXCEPT !.pc = "done", !.depth = 0, !.del = EmptyTables,
               !.ins = EmptyTables, !.obj = 0, !.assocs = {}, !.i = 0,
               !.loaded = {}, !.cont = ""]

\* an exception leaves every open begin() block: the transaction is rolled
\* back (rows written outside a transaction were committed when flushed)
Raise(c, err, err_id, err_tenant) ==
    [c EXCEPT !.st = Finished([c.st EXCEPT !.err = err, !.err_id = err_id,
                                           !.err_tenant = err_tenant,
                                           !.ret = 0])]

Return(c) == [c EXCEPT !.st = Finished(c.st)]

\* the INSERT of a row: the engine rejects a foreign key naming no row
fk_insert_ok(view, tbl, row) ==
    \A fk \in ForeignKeys :
        fk.table = tbl => row[fk.column] \in Ids(view[fk.reftable])

\* the DELETE of a row: the engine rejects it while a row references it
fk_delete_ok(view, tbl, row) ==
    \A fk \in ForeignKeys :
        fk.reftable = tbl =>
            \A r \in view[fk.table] : r[fk.column] # row.id

\* session.add(row) / collection.append(row), flushed
session_add(c, tbl, row) ==
    IF c.st.depth > 0
    THEN [c EXCEPT !.st.ins[tbl] = @ \cup {row}]
    ELSE [c EXCEPT !.db[tbl] = @ \cup {row}]

\* session.delete(row), flushed
session_delete(c, tbl, row) ==
    IF c.st.depth > 0
    THEN IF row \in c.st.ins[tbl]
         THEN [c EXCEPT !.st.ins[tbl] = @ \ {row}]
         ELSE [c EXCEPT !.st.del[tbl] = @ \cup {row}]
    ELSE [c EXCEPT !.db[tbl] = @ \ {row}]

\* CommonDbMixin._get_by_id: the rows Query.one() chooses among
get_by_id(view, model, v_id) == {r \in view[model] : r.id = v_id}

\* as NotFoundError, but without the branch for ProviderEdge
NotFoundError_no_provider_edge(model) ==
    CASE model = "mplsvpns" -> "MPLSVPNNotFound"
      [] model = "attachmentcircuits" -> "AttachmentCircuitNotFound"
      [] OTHER -> "NoResultFound"

\* _get_resource: the exception raised when there is no such row.  The
\* typed error replaces NoResultFound for the three models named; for any
\* other model save_and_reraise_exception re-raises NoResultFound.
NotFoundError(model) ==
    CASE model = "mplsvpns" -> "MPLSVPNNotFound"
      [] model = "attachmentcircuits" -> "AttachmentCircuitNotFound"
      [] model = "provideredges" -> "ProviderEdgeNotFound"
      [] OTHER -> "NoResultFound"

\* the model class a handler works on
ModelOf(op) ==
    CASE op \in {"create_mplsvpn", "update_mplsvpn", "delete_mplsvpn",
                 "update_mplsvpn_status_and_name", "get_mplsvpn"} ->
            "mplsvpns"
      [] op \in {"create_attachment_circuit", "update_attachment_circuit",
                 "delete_attachment_circuit", "get_attachment_circuit",
                 "add_network_to_attachmentcircuit",
                 "remove_network_from_attachmentcircuit"} ->
            "attachmentcircuits"
      \* the core plugin's delete of a row of the networks table
      [] op = "delete_network" -> "networks"
      [] OTHER -> "provideredges"

(***************************************************************************)
(* _modify_mplsvpn_ac_associations and _modify_ac_networks_associations:   *)
(* the same statements over the relationship of the handler's model.       *)
(* obj is the parent id, args.list the desired list of child ids.          *)
(***************************************************************************)
\* as modify_associations_all, but the rows of the parent are not read:
\* assocs is empty
modify_associations_all_none(c) ==
    [session_begin(c) EXCEPT !.st.assocs = {}, !.st.pc = "rc_del"]

\* as modify_associations_all, but the query is not filtered by the parent
modify_associations_all_unfiltered(c) ==
    LET rel == Relationship(ModelOf(c.st.args.op))
        b == session_begin(c)
    IN  [b EXCEPT !.st.assocs = View(b.st, b.db)[rel.table],
                  !.st.pc = "rc_del"]

\* with context.session.begin(subtransactions=True): assocs = query.all()
modify_associations_all(c) ==
    LET rel == Relationship(ModelOf(c.st.args.op))
        b == session_begin(c)
        assocs == {r \in View(b.st, b.db)[rel.table] :
                       r[rel.parent] = c.st.obj}
    IN  [b EXCEPT !.st.assocs = assocs, !.st.pc = "rc_del"]

\* as modify_associations_delete, but no row is ever deleted
modify_associations_delete_never(c) ==
    IF c.st.assocs = {} THEN [c EXCEPT !.st.pc = "rc_parent"]
    ELSE [c EXCEPT !.st.assocs = @ \ {First(c.st.assocs)}]

\* as modify_associations_delete, but every row of the parent is deleted
\* (and the rows of the list are inserted again)
modify_associations_delete_every(c) ==
    LET rel == Relationship(ModelOf(c.st.args.op))
        assoc == First(c.st.assocs)
        rest == [c EXCEPT !.st.assocs = @ \ {assoc}]
    IN  IF c.st.assocs = {} THEN [c EXCEPT !.st.pc = "rc_parent"]
        ELSE [session_delete(rest, rel.table, assoc)
                 EXCEPT !.st.ndel = @ + 1]

\* one turn of `for assoc in assocs`: delete the row if its child is not
\* in the list
modify_associations_delete(c) ==
    LET rel == Relationship(ModelOf(c.st.args.op))
        assoc == First(c.st.assocs)
        rest == [c EXCEPT !.st.assocs = @ \ {assoc}]
        assoc_db == get_by_id(View(c.st, c.db), rel.table, assoc.id)
    IN  IF c.st.assocs = {} THEN [c EXCEPT !.st.pc = "rc_parent"]
        ELSE IF assoc[rel.child] \in Range(c.st.args.list) THEN rest
        ELSE IF assoc_db = {}
             THEN Raise(c, NotFoundError(rel.table), assoc.id, "")
        ELSE [session_delete(rest, rel.table, First(assoc_db))
                 EXCEPT !.st.ndel = @ + 1]

\* as modify_associations_parent, but the parent row is not fetched
modify_associations_parent_unchecked(c) ==
    [c EXCEPT !.st.i = 1, !.st.pc = "rc_ins"]

\* the parent row, fetched after the deletes
modify_associations_parent(c) ==
    LET model == ModelOf(c.st.args.op)
    IN  IF get_by_id(View(c.st, c.db), model, c.st.obj) = {}
        THEN Raise(c, NotFoundError(model), c.st.obj, "")
        ELSE [c EXCEPT !.st.i = 1, !.st.pc = "rc_ins"]

\* as modify_associations_insert, but without the query for an existing
\* association
modify_associations_insert_always(c) ==
    LET rel == Relationship(ModelOf(c.st.args.op))
        key == c.st.args.list[c.st.i]
        assoc == IF rel.table = "acmplsvpnassociations"
                 THEN ACMPLSVPNAssociation(c.ids.assoc, c.st.obj, key, ACTIVE)
                 ELSE ACNetworkAssociation(c.ids.assoc, c.st.obj, key, ACTIVE)
        next == [c EXCEPT !.st.i = @ + 1]
    IN  IF c.st.i > Len(c.st.args.list)
        THEN [session_exit(c) EXCEPT !.st.pc = c.st.cont]
        ELSE IF ~fk_insert_ok(View(c.st, c.db), rel.table, assoc)
             THEN Raise(c, "IntegrityError", key, "")
        ELSE [session_add(next, rel.table, assoc)
                 EXCEPT !.st.nins = @ + 1, !.ids.assoc = @ + 1]

\* as modify_associations_insert, but the child row is looked up first and
\* a typed not-found error is raised when there is none
modify_associations_insert_prevalidated(c) ==
    LET rel == Relationship(ModelOf(c.st.args.op))
        view == View(c.st, c.db)
        key == c.st.args.list[c.st.i]
        found == {r \in view[rel.table] :
                      r[rel.parent] = c.st.obj /\ r[rel.child] = key}
        assoc == IF rel.table = "acmplsvpnassociations"
                 THEN ACMPLSVPNAssociation(c.ids.assoc, c.st.obj, key, ACTIVE)
                 ELSE ACNetworkAssociation(c.ids.assoc, c.st.obj, key, ACTIVE)
        next == [c EXCEPT !.st.i = @ + 1]
    IN  IF c.st.i > Len(c.st.args.list)
        THEN [session_exit(c) EXCEPT !.st.pc = c.st.cont]
        ELSE IF found # {} THEN next
        ELSE IF ~fk_insert_ok(view, rel.table, assoc)
             THEN Raise(c, IF rel.table = "acmplsvpnassociations"
                           THEN "AttachmentCircuitNotFound"
                           ELSE "NetworkNotFound", key, "")
        ELSE [session_add(next, rel.table, assoc)
                 EXCEPT !.st.nins = @ + 1, !.ids.assoc = @ + 1]

\* as modify_associations_insert, but the query does not see the rows this
\* loop has appended (they are not flushed before it)
modify_associations_insert_stale(c) ==
    LET rel == Relationship(ModelOf(c.st.args.op))
        view == View(c.st, c.db)
        key == c.st.args.list[c.st.i]
        found == {r \in c.db[rel.table] \ c.st.del[rel.table] :
                      r[rel.parent] = c.st.obj /\ r[rel.child] = key}
        assoc == IF rel.table = "acmplsvpnassociations"
                 THEN ACMPLSVPNAssociation(c.ids.assoc, c.st.obj, key, ACTIVE)
                 ELSE ACNetworkAssociation(c.ids.assoc, c.st.obj, key, ACTIVE)
        next == [c EXCEPT !.st.i = @ + 1]
    IN  IF c.st.i > Len(c.st.args.list)
        THEN [session_exit(c) EXCEPT !.st.pc = c.st.cont]
        ELSE IF found # {} THEN next
        ELSE IF ~fk_insert_ok(view, rel.table, assoc)
             THEN Raise(c, "IntegrityError", key, "")
        ELSE [session_add(next, rel.table, assoc)
                 EXCEPT !.st.nins = @ + 1, !.ids.assoc = @ + 1]

\* one turn of the loop over the list: append an ACTIVE association when
\* the query finds none; after the last turn the begin() block is left
modify_associations_insert(c) ==
    LET rel == Relationship(ModelOf(c.st.args.op))
        view == View(c.st, c.db)
        key == c.st.args.list[c.st.i]
        found == {r \in view[rel.table] :
                      r[rel.parent] = c.st.obj /\ r[rel.child] = key}
        assoc == IF rel.table = "acmplsvpnassociations"
                 THEN ACMPLSVPNAssociation(c.ids.assoc, c.st.obj, key, ACTIVE)
                 ELSE ACNetworkAssociation(c.ids.assoc, c.st.obj, key, ACTIVE)
        next == [c EXCEPT !.st.i = @ + 1]
    IN  IF c.st.i > Len(c.st.args.list)
        THEN [session_exit(c) EXCEPT !.st.pc = c.st.cont]
        ELSE IF found # {} THEN next
        ELSE IF ~fk_insert_ok(view, rel.table, assoc)
             THEN Raise(c, "IntegrityError", key, "")
        ELSE [session_add(next, rel.table, assoc)
                 EXCEPT !.st.nins = @ + 1, !.ids.assoc = @ + 1]

(***************************************************************************)
(* create_mplsvpn, create_attachment_circuit, create_provider_edge         *)
(***************************************************************************)
TunnelFields == {"tunnel_type", "tunnel_backup", "qos", "bandwidth"}

\* the defaults create_mplsvpn starts from
TunnelDefaults ==
    [tunnel_type |-> "fullmesh", tunnel_backup |-> "frr", qos |-> "Gold",
     bandwidth |-> 10]

\* as Truthy, but a key that is present counts whatever its value
Truthy_present(d, field) == field \in DOMAIN d

\* Python's truth value of dict.get(field): a missing key, "" and 0 are false
Truthy(d, field) ==
    /\ field \in DOMAIN d
    /\ IF field = "bandwidth" THEN d[field] # 0 ELSE d[field] # ""

\* the value create_mplsvpn stores for a field of tunnel_options
tunnel_option(args, field) ==
    IF /\ args.has_tunnel_options
       /\ DOMAIN args.tunnel_options # {}
       /\ Truthy(args.tunnel_options, field)
    THEN args.tunnel_options[field]
    ELSE TunnelDefaults[field]

DuplicateError(model) ==
    IF model = "mplsvpns" THEN "DuplicateMPLSVPNForTenant"
    ELSE "DuplicateAttachmentCircuitForTenant"

\* as create_query, but without the query for a row of the tenant
create_query_none(c) == [c EXCEPT !.st.pc = "c_add"]

\* as create_query, but the error carries the tenant's id for the row's
create_query_other_id(c) ==
    LET model == ModelOf(c.st.args.op)
        rows == {r \in View(c.st, c.db)[model] :
                     r.tenant_id = c.st.args.tenant_id}
    IN  IF rows # {}
        THEN Raise(c, DuplicateError(model), 0, c.st.args.tenant_id)
        ELSE [c EXCEPT !.st.pc = "c_add"]

\* the query for a row of the tenant, made before the begin() block
create_query(c) ==
    LET model == ModelOf(c.st.args.op)
        rows == {r \in View(c.st, c.db)[model] :
                     r.tenant_id = c.st.args.tenant_id}
    IN  IF rows # {}
        THEN Raise(c, DuplicateError(model), First(rows).id,
                   c.st.args.tenant_id)
        ELSE [c EXCEPT !.st.pc = "c_add"]

\* the row a create handler builds
NewRow(args, ids) ==
    CASE args.op = "create_mplsvpn" ->
            MPLSVPN(ids.mplsvpns, args.tenant_id, args.name,
                    tunnel_option(args, "tunnel_type"),
                    tunnel_option(args, "tunnel_backup"),
                    tunnel_option(args, "qos"),
                    tunnel_option(args, "bandwidth"),
                    PENDING_CREATE, args.vpn_id)
      [] args.op = "create_attachment_circuit" ->
            AttachmentCircuit(ids.attachmentcircuits, args.name,
                              args.tenant_id, args.network_type,
                              args.provider_edge_id)
      [] OTHER -> ProviderEdge(ids.provideredges, args.name)

\* as create_add, but the row is added before the begin() block is entered
create_add_before_begin(c) ==
    LET model == ModelOf(c.st.args.op)
        row == NewRow(c.st.args, c.ids)
        added == [session_begin(session_add(c, model, row))
                     EXCEPT !.ids[model] = @ + 1, !.st.obj = row.id,
                            !.st.ret = row.id]
    IN  IF ~fk_insert_ok(View(c.st, c.db), model, row)
        THEN Raise(c, "IntegrityError", row.id, "")
        ELSE IF model = "provideredges"
             THEN [added EXCEPT !.st.pc = "exit"]
        ELSE [added EXCEPT !.st.pc = "rc_all", !.st.cont = "exit"]

\* as create_add, but the query for a row of the tenant is made again
\* inside the begin() block, before the row is added
create_add_requeried(c) ==
    LET model == ModelOf(c.st.args.op)
        b == session_begin(c)
        row == NewRow(c.st.args, c.ids)
        rows == {r \in View(b.st, b.db)[model] :
                     "tenant_id" \in DOMAIN r
                     /\ r.tenant_id = c.st.args.tenant_id}
        added == [session_add(b, model, row)
                     EXCEPT !.ids[model] = @ + 1, !.st.obj = row.id,
                            !.st.ret = row.id]
    IN  IF model # "provideredges" /\ rows # {}
        THEN Raise(c, DuplicateError(model), First(rows).id,
                   c.st.args.tenant_id)
        ELSE IF ~fk_insert_ok(View(b.st, b.db), model, row)
             THEN Raise(c, "IntegrityError", row.id, "")
        ELSE IF model = "provideredges"
             THEN [added EXCEPT !.st.pc = "exit"]
        ELSE [added EXCEPT !.st.pc = "rc_all", !.st.cont = "exit"]

\* with context.session.begin(subtransactions=True): session.add(row); the
\* row is flushed by the next query.  The associations are populated next
\* (not for a provider edge).
create_add(c) ==
    LET model == ModelOf(c.st.args.op)
        b == session_begin(c)
        row == NewRow(c.st.args, c.ids)
        added == [session_add(b, model, row)
                     EXCEPT !.ids[model] = @ + 1, !.st.obj = row.id,
                            !.st.ret = row.id]
    IN  IF ~fk_insert_ok(View(b.st, b.db), model, row)
        THEN Raise(c, "IntegrityError", row.id, "")
        ELSE IF model = "provideredges"
             THEN [added EXCEPT !.st.pc = "exit"]
        ELSE [added EXCEPT !.st.pc = "rc_all", !.st.cont = "exit"]

\* the end of the handler's begin() block, and its return
handler_exit(c) == Return(session_exit(c))

(***************************************************************************)
(* update_mplsvpn, update_attachment_circuit                               *)
(***************************************************************************)
update_begin(c) ==
    LET b == session_begin(c)
    IN  IF c.st.args.has_list
        THEN [b EXCEPT !.st.obj = c.st.args.id, !.st.pc = "rc_all",
                       !.st.cont = "u_get"]
        ELSE [b EXCEPT !.st.pc = "u_get"]

\* as update_get, but the scalar fields of the payload are written to the
\* row, as mplsvpn_db.update(mplsvpns) would
update_get_writes_payload(c) ==
    LET model == ModelOf(c.st.args.op)
        r == get_by_id(View(c.st, c.db), model, c.st.args.id)
        row == First(r)
        new == IF model = "mplsvpns" /\ c.st.args.name # ""
               THEN [row EXCEPT !.name = c.st.args.name,
                                !.status = c.st.args.status]
               ELSE row
    IN  IF r = {} THEN Raise(c, NotFoundError(model), c.st.args.id, "")
        ELSE [session_add(session_delete(c, model, row), model, new)
                 EXCEPT !.st.ret = c.st.args.id, !.st.pc = "exit"]

update_get(c) ==
    LET model == ModelOf(c.st.args.op)
    IN  IF get_by_id(View(c.st, c.db), model, c.st.args.id) = {}
        THEN Raise(c, NotFoundError(model), c.st.args.id, "")
        ELSE [c EXCEPT !.st.ret = c.st.args.id, !.st.pc = "exit"]

(***************************************************************************)
(* update_mplsvpn_status_and_name, update_provider_edge                    *)
(***************************************************************************)
set_get(c) ==
    LET model == ModelOf(c.st.args.op)
        b == session_begin(c)
        r == get_by_id(View(b.st, b.db), model, c.st.args.id)
    IN  IF r = {} THEN Raise(c, NotFoundError(model), c.st.args.id, "")
        ELSE [b EXCEPT !.st.loaded = r, !.st.pc = "s_set"]

\* as Assigned, but every column the payload can carry is written, as
\* mplsvpns_db.update(mplsvpn) would
Assigned_whole_payload(row, args) ==
    IF args.op = "update_mplsvpn_status_and_name"
    THEN [row EXCEPT !.name = args.name, !.status = args.status,
                     !.vpn_id = args.vpn_id]
    ELSE [row EXCEPT !.name = args.name]

\* the attributes the handler assigns
Assigned(row, args) ==
    IF args.op = "update_mplsvpn_status_and_name"
    THEN [row EXCEPT !.name = args.name, !.status = args.status]
    ELSE [row EXCEPT !.name = args.name]

\* the UPDATE of the row, flushed at the end of the block
set_fields(c) ==
    LET model == ModelOf(c.st.args.op)
        r == get_by_id(View(c.st, c.db), model, c.st.args.id)
    IN  IF r = {} THEN Raise(c, "StaleDataError", c.st.args.id, "")
        ELSE [session_add(session_delete(c, model, First(r)), model,
                          Assigned(First(r), c.st.args))
                 EXCEPT !.st.ret = c.st.args.id, !.st.pc = "exit"]

(***************************************************************************)
(* delete_mplsvpn, delete_attachment_circuit, delete_provider_edge         *)
(***************************************************************************)
\* the row and, loaded with it (lazy="joined"), the rows of its relationship
delete_get(c) ==
    LET model == ModelOf(c.st.args.op)
        rel == Relationship(model)
        b == session_begin(c)
        view == View(b.st, b.db)
        r == get_by_id(view, model, c.st.args.id)
        owned == IF rel.table = "none" THEN {}
                 ELSE {a \in view[rel.table] : a[rel.parent] = c.st.args.id}
    IN  IF r = {} THEN Raise(c, NotFoundError(model), c.st.args.id, "")
        ELSE [b EXCEPT !.st.loaded = r, !.st.assocs = owned,
                       !.st.pc = "d_delete"]

RECURSIVE delete_all(_, _, _)
delete_all(c, tbl, rows) ==
    IF rows = {} THEN c
    ELSE delete_all(session_delete(c, tbl, First(rows)), tbl,
                    rows \ {First(rows)})

\* as delete_row, but the relationship does not cascade
delete_row_no_cascade(c) ==
    LET model == ModelOf(c.st.args.op)
        row == First(c.st.loaded)
        d == delete_all(c, model, c.st.loaded)
    IN  IF ~fk_delete_ok(View(d.st, d.db), model, row)
        THEN Raise(c, "IntegrityError", row.id, "")
        ELSE [d EXCEPT !.st.ndel = @ + 1, !.st.pc = "exit"]

\* session.delete(row): cascade="all" deletes the loaded rows of the
\* relationship, then the row; the engine checks the foreign keys to it
delete_row(c) ==
    LET model == ModelOf(c.st.args.op)
        rel == Relationship(model)
        row == First(c.st.loaded)
        d == delete_all(delete_all(c, rel.table, c.st.assocs), model,
                        c.st.loaded)
    IN  IF ~fk_delete_ok(View(d.st, d.db), model, row)
        THEN Raise(c, "IntegrityError", row.id, "")
        ELSE [d EXCEPT !.st.ndel = @ + 1, !.st.pc = "exit"]

(***************************************************************************)
(* get_mplsvpn, get_attachment_circuit, get_provider_edge                  *)
(***************************************************************************)
get_resource(c) ==
    LET model == ModelOf(c.st.args.op)
    IN  IF get_by_id(View(c.st, c.db), model, c.st.args.id) = {}
        THEN Raise(c, NotFoundError(model), c.st.args.id, "")
        ELSE Return([c EXCEPT !.st.ret = c.st.args.id])

(***************************************************************************)
(* add_network_to_attachmentcircuit, remove_network_from_attachmentcircuit *)
(***************************************************************************)
\* attachmentcircuit_db = query.filter_by(id=...).first(): a row or None
add_network_get(c) ==
    LET b == session_begin(c)
    IN  [b EXCEPT !.st.loaded = get_by_id(View(b.st, b.db),
                                          "attachmentcircuits", c.st.args.id),
                  !.st.pc = "n_add"]

\* the association is appended when the query finds none; appending to
\* None is an AttributeError
add_network_append(c) ==
    LET view == View(c.st, c.db)
        found == {r \in view.acnetworkassociations :
                      /\ r.attachmentcircuit_id = c.st.args.id
                      /\ r.network_id = c.st.args.network_id}
        assoc == ACNetworkAssociation(c.ids.assoc, c.st.args.id,
                                      c.st.args.network_id, ACTIVE)
    IN  IF found # {} THEN [c EXCEPT !.st.pc = "exit"]
        ELSE IF c.st.loaded = {}
             THEN Raise(c, "AttributeError", c.st.args.id, "")
        ELSE IF ~fk_insert_ok(view, "acnetworkassociations", assoc)
             THEN Raise(c, "IntegrityError", c.st.args.network_id, "")
        ELSE [session_add(c, "acnetworkassociations", assoc)
                 EXCEPT !.st.nins = @ + 1, !.ids.assoc = @ + 1,
                        !.st.pc = "exit"]

remove_network(c) ==
    LET b == session_begin(c)
        found == {r \in View(b.st, b.db).acnetworkassociations :
                      /\ r.attachmentcircuit_id = c.st.args.id
                      /\ r.network_id = c.st.args.network_id}
    IN  IF found = {} THEN [b EXCEPT !.st.pc = "exit"]
        ELSE [session_delete(b, "acnetworkassociations", First(found))
                 EXCEPT !.st.ndel = @ + 1, !.st.pc = "exit"]

(***************************************************************************)
(* The statements in order.                                                *)
(***************************************************************************)
\* the first statement of a handler
FirstPc(op) ==
    CASE op \in {"create_mplsvpn", "create_attachment_circuit"} -> "c_query"
      [] op = "create_provider_edge" -> "c_add"
      [] op \in {"update_mplsvpn", "update_attachment_circuit"} -> "u_begin"
      [] op \in {"update_mplsvpn_status_and_name", "update_provider_edge"} ->
            "s_get"
      [] op \in {"delete_mplsvpn", "delete_attachment_circuit",
                 "delete_provider_edge", "delete_network"} -> "d_get"
      [] op = "add_network_to_attachmentcircuit" -> "n_get"
      [] op = "remove_network_from_attachmentcircuit" -> "r_del"
      [] OTHER -> "g_get"

\* one statement of the request in configuration c
Step(c) ==
    CASE c.st.pc = "c_query" -> create_query(c)
      [] c.st.pc = "c_add" -> create_add(c)
      [] c.st.pc = "rc_all" -> modify_associations_all(c)
      [] c.st.pc = "rc_del" -> modify_associations_delete(c)
      [] c.st.pc = "rc_parent" -> modify_associations_parent(c)
      [] c.st.pc = "rc_ins" -> modify_associations_insert(c)
      [] c.st.pc = "u_begin" -> update_begin(c)
      [] c.st.pc = "u_get" -> update_get(c)
      [] c.st.pc = "s_get" -> set_get(c)
      [] c.st.pc = "s_set" -> set_fields(c)
      [] c.st.pc = "d_get" -> delete_get(c)
      [] c.st.pc = "d_delete" -> delete_row(c)
      [] c.st.pc = "g_get" -> get_resource(c)
      [] c.st.pc = "n_get" -> add_network_get(c)
      [] c.st.pc = "n_add" -> add_network_append(c)
      [] c.st.pc = "r_del" -> remove_network(c)
      [] c.st.pc = "exit" -> handler_exit(c)
      [] OTHER -> c

\* the handler run to its return or its exception
RECURSIVE Run(_)
Run(c) == IF c.st.pc \in {"done", "idle"} THEN c ELSE Run(Step(c))

\* a request arrives: a fresh session
Request(prev, args, tables) ==
    [Idle EXCEPT !.pc = FirstPc(args.op), !.args = args, !.pre = tables,
                 !.repeat = /\ prev.pc = "done"
                            /\ prev.err = "none"
                            /\ prev.args = args]

(***************************************************************************)
(* The state: the committed tables, the ids generate_uuid() has not handed *)
(* out yet, and each request's session.                                    *)
(***************************************************************************)
VARIABLES db, nextId, sess

vars == <<db, nextId, sess>>

Init ==
    /\ db = [EmptyTables EXCEPT
                !.networks = {[id |-> n] : n \in 1..NumNetworks}]
    /\ nextId = [mplsvpns |-> 1, attachmentcircuits |-> 1,
                 provideredges |-> 1, assoc |-> 1]
    /\ sess = [s \in Sessions |-> Idle]

\* generate_uuid() never repeats an id: the model stops handing out ids
\* after the last one
IdsLeft(ids) ==
    /\ ids.mplsvpns <= MaxVpn + 1
    /\ ids.attachmentcircuits <= MaxAc + 1
    /\ ids.provideredges <= MaxPe + 1
    /\ ids.assoc <= MaxAssoc + 1

(***************************************************************************)
(* The payloads of the requests.                                           *)
(***************************************************************************)
AcLists == SeqsUpTo(AcIds, MaxLen)
NetLists == SeqsUpTo(NetIds, MaxLen)

\* tunnel_options of a create_mplsvpn payload
TunnelOptionInputs ==
    << [has |-> FALSE, d |-> <<>>] >>

StatusAndNameInputs == {[name |-> "w", status |-> ACTIVE]}

\* the arguments of the handlers
CreateProviderEdge ==
    [NoArgs EXCEPT !.op = "create_provider_edge", !.name = "pe"]

CreateAttachmentCircuit(tenant_id, provider_edge_id, networks) ==
    [NoArgs EXCEPT !.op = "create_attachment_circuit",
                   !.tenant_id = tenant_id, !.name = "ac",
                   !.network_type = "L2",
                   !.provider_edge_id = provider_edge_id,
                   !.list = networks]

CreateMplsvpn(tenant_id, tunnel_options, attachment_circuits) ==
    [NoArgs EXCEPT !.op = "create_mplsvpn", !.tenant_id = tenant_id,
                   !.name = "v", !.vpn_id = "vpn",
                   !.has_tunnel_options = tunnel_options.has,
                   !.tunnel_options = tunnel_options.d,
                   !.list = attachment_circuits]

\* update_mplsvpn / update_attachment_circuit: has_list says whether the
\* payload has the attachment_circuits / networks key
Update(op, id, has_list, list) ==
    [NoArgs EXCEPT !.op = op, !.id = id, !.has_list = has_list,
                   !.list = list]

StatusAndName(id, name, status) ==
    [NoArgs EXCEPT !.op = "update_mplsvpn_status_and_name", !.id = id,
                   !.name = name, !.status = status]

\* get_* and delete_*
ById(op, id) == [NoArgs EXCEPT !.op = op, !.id = id]

\* add_network_to_attachmentcircuit / remove_network_from_attachmentcircuit
Network(op, id, network_id) ==
    [NoArgs EXCEPT !.op = op, !.id = id, !.network_id = network_id]

(***************************************************************************)
(* Spec: one request at a time, each handler run to completion.            *)
(***************************************************************************)
\* the update requests that carry a list: the ones a client sends again
Resent(args) ==
    /\ args.op \in {"update_mplsvpn", "update_attachment_circuit"}
    /\ args.has_list

\* A request is served: the handler runs to its return or its exception.
\* The next request arrives after the response is out (session_close), or
\* is the same update sent once more right after the first returned.
Call(args) ==
    LET prev == sess["s1"]
    IN  /\ sess["s2"].pc = "idle"
        /\ \/ prev.pc = "idle"
           \/ /\ prev.pc = "done" /\ prev.err = "none" /\ ~prev.repeat
              /\ prev.args = args /\ Resent(args)
        /\ \E r \in {Run([st |-> Request(prev, args, db), db |-> db,
                           ids |-> nextId])} :
              /\ IdsLeft(r.ids)
              /\ sess' = [sess EXCEPT !["s1"] = r.st]
              /\ db' = r.db
              /\ nextId' = r.ids

\* the response is out: the request's session and result are dropped
session_close ==
    /\ sess["s2"].pc = "idle"
    /\ sess["s1"].pc = "done"
    /\ sess' = [sess EXCEPT !["s1"] = Idle]
    /\ UNCHANGED <<db, nextId>>

create_provider_edge ==
    Call(CreateProviderEdge)

delete_provider_edge ==
    \E id \in PeIds : Call(ById("delete_provider_edge", id))

get_provider_edge ==
    \E id \in PeIds : Call(ById("get_provider_edge", id))

create_attachment_circuit ==
    \E t \in Tenants, pe \in PeIds, networks \in NetLists :
        Call(CreateAttachmentCircuit(t, pe, networks))

update_attachment_circuit ==
    \E id \in AcIds, has \in BOOLEAN, networks \in NetLists :
        /\ ~has => networks = <<>>
        /\ Call(Update("update_attachment_circuit", id, has, networks))

delete_attachment_circuit ==
    \E id \in AcIds : Call(ById("delete_attachment_circuit", id))

get_attachment_circuit ==
    \E id \in AcIds : Call(ById("get_attachment_circuit", id))

add_network_to_attachmentcircuit ==
    \E id \in AcIds, n \in NetIds :
        Call(Network("add_network_to_attachmentcircuit", id, n))

remove_network_from_attachmentcircuit ==
    \E id \in AcIds, n \in NetIds :
        Call(Network("remove_network_from_attachmentcircuit", id, n))

create_mplsvpn ==
    \E t \in Tenants, k \in DOMAIN TunnelOptionInputs, acs \in AcLists :
        Call(CreateMplsvpn(t, TunnelOptionInputs[k], acs))

update_mplsvpn ==
    \E id \in VpnIds, has \in BOOLEAN, acs \in AcLists :
        /\ ~has => acs = <<>>
        /\ Call(Update("update_mplsvpn", id, has, acs))

update_mplsvpn_status_and_name ==
    \E id \in VpnIds, in \in StatusAndNameInputs :
        Call(StatusAndName(id, in.name, in.status))

delete_mplsvpn ==
    \E id \in VpnIds : Call(ById("delete_mplsvpn", id))

get_mplsvpn ==
    \E id \in VpnIds : Call(ById("get_mplsvpn", id))

\* The status column of an association row (HasStatusDescription) is
\* written by the driver that realises the association, not by the plugin
\* database class: any stored association row may change status between
\* two requests.
set_association_status ==
    \E tbl \in {"acmplsvpnassociations", "acnetworkassociations"} :
        \E row \in db[tbl], status \in {ACTIVE, DOWN} :
            /\ row.status # status
            /\ sess["s2"].pc = "idle"
            /\ sess["s1"].pc = "idle"
            /\ db' = [db EXCEPT ![tbl] = (@ \ {row}) \cup
                                         {[row EXCEPT !.status = status]}]
            /\ UNCHANGED <<nextId, sess>>

Next ==
    \/ session_close
    \/ set_association_status
    \/ create_provider_edge
    \/ delete_provider_edge
    \/ get_provider_edge
    \/ create_attachment_circuit
    \/ update_attachment_circuit
    \/ delete_attachment_circuit
    \/ get_attachment_circuit
    \/ add_network_to_attachmentcircuit
    \/ remove_network_from_attachmentcircuit
    \/ create_mplsvpn
    \/ update_mplsvpn
    \/ update_mplsvpn_status_and_name
    \/ delete_mplsvpn
    \/ get_mplsvpn

Spec == Init /\ [][Next]_vars

(***************************************************************************)
(* SpecTunnel: create_mplsvpn over the tunnel_options a payload can carry. *)
(* Each of the four keys is missing, present with an empty value ("" or 0) *)
(* or present with a value other than the default; the payload may also    *)
(* have no tunnel_options key at all.                                      *)
(***************************************************************************)
\* a value of the column's type that is not the default
TunnelOther ==
    [tunnel_type |-> "Customized", tunnel_backup |-> "Secondary",
     qos |-> "Silver", bandwidth |-> 20]

TunnelEmpty ==
    [tunnel_type |-> "", tunnel_backup |-> "", qos |-> "", bandwidth |-> 0]

\* per key: 0 the key is missing, 1 its value is empty, 2 it has a value
TunnelChoices == [TunnelFields -> 0..2]

TunnelOptions(choice) ==
    [f \in {g \in TunnelFields : choice[g] # 0} |->
        IF choice[f] = 1 THEN TunnelEmpty[f] ELSE TunnelOther[f]]

TunnelPayloads ==
    {[has |-> FALSE, d |-> <<>>]}
    \cup {[has |-> TRUE, d |-> TunnelOptions(ch)] : ch \in TunnelChoices}

create_mplsvpn_tunnel_options ==
    \E t \in Tenants, tunnel_options \in TunnelPayloads :
        Call(CreateMplsvpn(t, tunnel_options, <<>>))

NextTunnel ==
    \/ session_close
    \/ create_mplsvpn_tunnel_options
    \/ delete_mplsvpn
    \/ get_mplsvpn

SpecTunnel == Init /\ [][NextTunnel]_vars

(***************************************************************************)
(* SpecStatus: the life of a VPN row.  The payload of update_mplsvpn may   *)
(* carry scalar fields (a name and a status) beside or instead of          *)
(* attachment_circuits; the driver pushes a status and a name through      *)
(* update_mplsvpn_status_and_name.                                         *)
(***************************************************************************)
\* the scalar fields of an update_mplsvpn payload: none, or name and status
UpdateScalars == {[name |-> "", status |-> ""], [name |-> "n", status |-> DOWN]}

update_mplsvpn_payload ==
    \E id \in VpnIds, has \in BOOLEAN, acs \in AcLists,
       scalars \in UpdateScalars :
        /\ ~has => acs = <<>>
        /\ Call([Update("update_mplsvpn", id, has, acs)
                    EXCEPT !.name = scalars.name,
                           !.status = scalars.status])

NextStatus ==
    \/ session_close
    \/ create_provider_edge
    \/ create_attachment_circuit
    \/ create_mplsvpn
    \/ update_mplsvpn_payload
    \/ update_mplsvpn_status_and_name
    \/ delete_mplsvpn

SpecStatus == Init /\ [][NextStatus]_vars

(***************************************************************************)
(* SpecNet: the attachment circuits, their networks and the networks       *)
(* table.  The rows of networks belong to the core plugin, which deletes   *)
(* them in a session of its own; acnetworkassociations.network_id is a     *)
(* foreign key to networks.id with no ON DELETE clause, and no             *)
(* relationship of this module loads the association rows with a network.  *)
(***************************************************************************)
delete_network ==
    \E id \in Ids(db.networks) : Call(ById("delete_network", id))

NextNet ==
    \/ session_close
    \/ create_provider_edge
    \/ create_attachment_circuit
    \/ update_attachment_circuit
    \/ delete_attachment_circuit
    \/ add_network_to_attachmentcircuit
    \/ remove_network_from_attachmentcircuit
    \/ delete_network

SpecNet == Init /\ [][NextNet]_vars

(***************************************************************************)
(* SpecConc: two requests, each in its own session, whose statements       *)
(* interleave.  It starts from tables Spec reaches: the empty tables, or a *)
(* provider edge alone, or a provider edge, tenant t1's attachment circuit *)
(* and tenant t1's VPN, the circuit associated with the VPN or not, or     *)
(* these and tenant t2's attachment circuit.                               *)
(***************************************************************************)
Stored(associations) ==
    [EmptyTables EXCEPT
        !.networks = {[id |-> n] : n \in 1..NumNetworks},
        !.provideredges = {ProviderEdge(1, "pe")},
        !.attachmentcircuits = {AttachmentCircuit(1, "ac", "t1", "L2", 1)},
        !.mplsvpns = {MPLSVPN(1, "t1", "v", TunnelDefaults.tunnel_type,
                              TunnelDefaults.tunnel_backup,
                              TunnelDefaults.qos, TunnelDefaults.bandwidth,
                              PENDING_CREATE, "vpn")},
        !.acmplsvpnassociations = associations]

StoredIds(assoc) ==
    [mplsvpns |-> 2, attachmentcircuits |-> 2, provideredges |-> 2,
     assoc |-> assoc]

\* the tables after create_provider_edge alone
StoredEdge ==
    [EmptyTables EXCEPT
        !.networks = {[id |-> n] : n \in 1..NumNetworks},
        !.provideredges = {ProviderEdge(1, "pe")}]

\* the tables after create_provider_edge, create_attachment_circuit for
\* each tenant and create_mplsvpn for tenant t1
StoredCircuits ==
    [Stored({}) EXCEPT
        !.attachmentcircuits = {AttachmentCircuit(1, "ac", "t1", "L2", 1),
                                AttachmentCircuit(2, "ac", "t2", "L2", 1)}]

InitConc ==
    /\ sess = [s \in Sessions |-> Idle]
    /\ \/ Init
       \/ /\ db = StoredCircuits
          /\ nextId = [mplsvpns |-> 2, attachmentcircuits |-> 3,
                       provideredges |-> 2, assoc |-> 1]
       \/ /\ db = StoredEdge
          /\ nextId = [mplsvpns |-> 1, attachmentcircuits |-> 1,
                       provideredges |-> 2, assoc |-> 1]
       \/ db = Stored({}) /\ nextId = StoredIds(1)
       \/ /\ db = Stored({ACMPLSVPNAssociation(1, 1, 1, ACTIVE)})
          /\ nextId = StoredIds(2)

\* the requests that race
ConcRequests ==
    {Update("update_mplsvpn", 1, TRUE, acs) : acs \in AcLists}
    \cup {Update("update_mplsvpn", 1, FALSE, <<>>)}
    \cup {Update("update_attachment_circuit", 1, TRUE, networks) :
              networks \in NetLists}
    \cup {CreateMplsvpn(t, TunnelOptionInputs[1], <<>>) : t \in Tenants}
    \cup {CreateAttachmentCircuit(t, 1, <<>>) : t \in Tenants}
    \cup {ById(op, 1) : op \in {"delete_mplsvpn", "get_mplsvpn",
                                "delete_attachment_circuit"}}

\* a request arrives at a worker that serves none
request_arrives(s) ==
    /\ sess[s].pc = "idle"
    /\ \E args \in ConcRequests :
           sess' = [sess EXCEPT ![s] = Request(Idle, args, db)]
    /\ UNCHANGED <<db, nextId>>

\* the next statement of a request
statement(s) ==
    /\ sess[s].pc \notin {"idle", "done"}
    /\ \E r \in {Step([st |-> sess[s], db |-> db, ids |-> nextId])} :
          /\ IdsLeft(r.ids)
          /\ sess' = [sess EXCEPT ![s] = r.st]
          /\ db' = r.db
          /\ nextId' = r.ids

NextConc == \E s \in Sessions : request_arrives(s) \/ statement(s)

SpecConc == InitConc /\ [][NextConc]_vars

(***************************************************************************)
(* Properties.  S is the request Spec serves; once done it holds the       *)
(* payload, the outcome and the tables as they were when it arrived.       *)
(***************************************************************************)
S == sess["s1"]

Done(op) == S.pc = "done" /\ S.args.op = op

Creates == {"create_mplsvpn", "create_attachment_circuit"}
Updates == {"update_mplsvpn", "update_attachment_circuit"}

\* the handler reconciled the associations of a parent with S.args.list
Reconciles == S.pc = "done" /\ S.args.op \in Updates /\ S.args.has_list

\* the association rows of parent p in a relationship, and their child keys
AssocsOf(tables, model, p) ==
    {a \in tables[Relationship(model).table] :
         a[Relationship(model).parent] = p}

ChildKeys(tables, model, p) ==
    {a[Relationship(model).child] : a \in AssocsOf(tables, model, p)}

\* the table the children of a relationship live in
ChildTable(model) ==
    IF model = "mplsvpns" THEN "attachmentcircuits" ELSE "networks"

\* C1: a reconcile of an existing parent with a list of existing children
\* completes, and the child keys of the parent's association rows are then
\* exactly the elements of the list (for both relationships).
C1_ReconcileCorrect ==
    Reconciles =>
        LET model == ModelOf(S.args.op)
        IN  /\ ( /\ S.args.id \in Ids(S.pre[model])
                 /\ Range(S.args.list) \subseteq Ids(S.pre[ChildTable(model)]) )
               => S.err = "none"
            /\ S.err = "none" =>
                   ChildKeys(db, model, S.args.id) = Range(S.args.list)

\* a reconcile of a VPN that deleted a row, inserted a row and returned
C1_Witness ==
    /\ Reconciles /\ S.args.op = "update_mplsvpn" /\ S.err = "none"
    /\ S.ndel > 0 /\ S.nins > 0
    /\ ChildKeys(db, "mplsvpns", S.args.id) # {}

\* C2: every association row of the parent whose child key is in the list
\* is the same row after the reconcile: same id, same status.
C2_NoChurn ==
    (Reconciles /\ S.err = "none") =>
        \A a \in AssocsOf(S.pre, ModelOf(S.args.op), S.args.id) :
            a[Relationship(ModelOf(S.args.op)).child] \in Range(S.args.list)
                => a \in db[Relationship(ModelOf(S.args.op)).table]

\* a reconcile that kept a row whose status is not ACTIVE while it wrote
\* another row
C2_Witness ==
    /\ Reconciles /\ S.err = "none" /\ S.ndel + S.nins > 0
    /\ \E a \in AssocsOf(S.pre, ModelOf(S.args.op), S.args.id) :
           /\ a[Relationship(ModelOf(S.args.op)).child] \in Range(S.args.list)
           /\ a.status # ACTIVE
           /\ a \in db[Relationship(ModelOf(S.args.op)).table]

\* C3: the same reconcile sent again right after it returned deletes
\* nothing, inserts nothing and leaves the tables as the first call left them.
C3_Idempotent ==
    (Reconciles /\ S.repeat) =>
        /\ S.err = "none"
        /\ S.ndel = 0 /\ S.nins = 0
        /\ db = S.pre

\* a second call on a parent that has two association rows
C3_Witness ==
    /\ Reconciles /\ S.repeat /\ S.err = "none"
    /\ Cardinality(AssocsOf(db, ModelOf(S.args.op), S.args.id)) = 2

\* C5: at most one MPLSVPN row and at most one AttachmentCircuit row per
\* tenant, in every state requests served one after the other can reach.
C5_TenantSingleton ==
    \A t \in Tenants :
        /\ Cardinality({r \in db.mplsvpns : r.tenant_id = t}) <= 1
        /\ Cardinality({r \in db.attachmentcircuits : r.tenant_id = t}) <= 1

\* every tenant has its VPN and its attachment circuit, and one more create
\* was just served
C5_Witness ==
    /\ S.pc = "done" /\ S.args.op \in Creates
    /\ \A t \in Tenants :
           /\ \E r \in db.mplsvpns : r.tenant_id = t
           /\ \E r \in db.attachmentcircuits : r.tenant_id = t

\* C6: a create for a tenant that has a row already fails with the
\* Duplicate error of the entity, carrying the id of that row and the
\* tenant id, and changes no table.
C6_DuplicateRejected ==
    (S.pc = "done" /\ S.args.op \in Creates) =>
        LET model == ModelOf(S.args.op)
            had == {r \in S.pre[model] : r.tenant_id = S.args.tenant_id}
        IN  had # {} =>
                /\ S.err = DuplicateError(model)
                /\ S.err_id \in Ids(had)
                /\ S.err_tenant = S.args.tenant_id
                /\ db = S.pre

\* a second create_attachment_circuit for a tenant whose circuit has a
\* network, rejected
C6_Witness ==
    /\ Done("create_attachment_circuit")
    /\ S.err = "DuplicateAttachmentCircuitForTenant"
    /\ \E r \in db.attachmentcircuits :
           /\ r.id = S.err_id /\ r.tenant_id = S.args.tenant_id
           /\ AssocsOf(db, "attachmentcircuits", r.id) # {}

\* C7: a create that fails leaves no row behind (neither the parent row nor
\* an association row), and the same tenant's next create is not rejected as
\* a duplicate.
C7_CreateAtomic ==
    (S.pc = "done" /\ S.args.op \in Creates
        /\ S.err \notin {"none", DuplicateError(ModelOf(S.args.op))}) =>
        /\ db = S.pre
        /\ Run([st |-> Request(Idle, S.args, db), db |-> db,
                ids |-> nextId]).st.err # DuplicateError(ModelOf(S.args.op))

\* a create_mplsvpn whose list names an existing circuit and then a missing
\* one: the VPN row and one association were written before the failure
C7_Witness ==
    /\ Done("create_mplsvpn") /\ S.err = "IntegrityError"
    /\ Len(S.args.list) = 2
    /\ S.args.list[1] \in Ids(S.pre.attachmentcircuits)
    /\ S.args.list[2] \notin Ids(S.pre.attachmentcircuits)

\* C8: delete_mplsvpn of a stored VPN succeeds; the VPN row and every
\* association row of it are gone together, nothing else changes (the
\* attachment circuits stay), and no state shows an association row of a
\* VPN that is not stored.
C8_CascadeDelete ==
    /\ \A a \in db.acmplsvpnassociations : a.mplsvpn_id \in Ids(db.mplsvpns)
    /\ (Done("delete_mplsvpn") /\ S.args.id \in Ids(S.pre.mplsvpns)) =>
           /\ S.err = "none"
           /\ db = [S.pre EXCEPT
                      !.mplsvpns = {r \in @ : r.id # S.args.id},
                      !.acmplsvpnassociations =
                          {a \in @ : a.mplsvpn_id # S.args.id}]

\* a VPN with two attachment circuits was deleted
C8_Witness ==
    /\ Done("delete_mplsvpn") /\ S.err = "none"
    /\ Cardinality(AssocsOf(S.pre, "mplsvpns", S.args.id)) = 2
    /\ Cardinality(db.attachmentcircuits) = 2

\* C9: a reconcile of a parent id that is not stored fails with the typed
\* not-found error of the parent, for every list, and creates no row.
C9_MissingParent ==
    (Reconciles /\ S.args.id \notin Ids(S.pre[ModelOf(S.args.op)])) =>
        /\ S.err = NotFoundError(ModelOf(S.args.op))
        /\ S.err \in {"MPLSVPNNotFound", "AttachmentCircuitNotFound"}
        /\ S.err_id = S.args.id
        /\ db = S.pre
        /\ AssocsOf(db, ModelOf(S.args.op), S.args.id) = {}

\* a reconcile, with the empty list, of a VPN that was deleted
C9_Witness ==
    /\ Reconciles /\ S.args.op = "update_mplsvpn" /\ S.args.list = <<>>
    /\ S.args.id \notin Ids(db.mplsvpns)
    /\ S.args.id < nextId.mplsvpns
    /\ S.err = "MPLSVPNNotFound"

\* C10: get and delete of an id that is not stored fail with the entity's
\* own NotFound error carrying the id, never with NoResultFound, and change
\* no table.
C10_NotFound ==
    \A model \in {"mplsvpns", "attachmentcircuits", "provideredges"} :
        ( /\ S.pc = "done" /\ ModelOf(S.args.op) = model
          /\ S.args.op \in {"get_mplsvpn", "get_attachment_circuit",
                            "get_provider_edge", "delete_mplsvpn",
                            "delete_attachment_circuit",
                            "delete_provider_edge"}
          /\ S.args.id \notin Ids(S.pre[model]) ) =>
            /\ S.err = CASE model = "mplsvpns" -> "MPLSVPNNotFound"
                         [] model = "attachmentcircuits" ->
                                "AttachmentCircuitNotFound"
                         [] OTHER -> "ProviderEdgeNotFound"
            /\ S.err_id = S.args.id
            /\ db = S.pre

\* delete_provider_edge of an edge that was deleted before, with other rows
\* stored
C10_Witness ==
    /\ Done("delete_provider_edge") /\ S.err = "ProviderEdgeNotFound"
    /\ S.args.id < nextId.provideredges
    /\ db.mplsvpns # {}

\* C4: the committed association rows change only in the statement that
\* ends an update handler normally, all at once: no statement before it and
\* no statement that raises changes a committed table, so a reconcile that
\* fails after deletes were issued or on a rejected insert leaves the rows
\* as they were and no other request sees part of its writes.
C4_ReconcileAtomic ==
    /\ [](\A s \in Sessions :
            ( /\ sess[s].pc = "done" /\ sess[s].args.op \in Updates
              /\ sess[s].err # "none"
              /\ \A o \in Sessions \ {s} : sess[o].pc = "idle" )
            => db = sess[s].pre)
    /\ [][\A s \in Sessions :
            ( /\ sess[s].pc \notin {"idle", "done"}
              /\ sess[s].args.op \in Updates
              /\ sess'[s] # sess[s] )
            => \/ db' = db
               \/ sess'[s].pc = "done" /\ sess'[s].err = "none"]_vars

\* an update_mplsvpn that deleted a row, then had an insert rejected, while
\* the other request was being served
C4_Witness ==
    \E s \in Sessions :
        /\ sess[s].pc = "done" /\ sess[s].args.op = "update_mplsvpn"
        /\ sess[s].err = "IntegrityError" /\ sess[s].ndel > 0
        /\ AssocsOf(db, "mplsvpns", 1) = AssocsOf(sess[s].pre, "mplsvpns", 1)
        /\ \E o \in Sessions \ {s} : sess[o].pc = "done"

\* C11: the VPN row a successful create_mplsvpn stores has, for each of
\* tunnel_type, tunnel_backup, qos and bandwidth independently, the value of
\* that key of the payload's tunnel_options when the key is present and its
\* value is not empty ("" for the three names, 0 for bandwidth), and the
\* default (fullmesh, frr, Gold, 10) otherwise; with no tunnel_options or
\* an empty one, all four are the defaults.
C11_TunnelDefaults ==
    (Done("create_mplsvpn") /\ S.err = "none") =>
        \E row \in db.mplsvpns :
            /\ row.id = S.ret
            /\ LET d == S.args.tunnel_options
                    given(f) == S.args.has_tunnel_options /\ f \in DOMAIN d
               IN  /\ row.tunnel_type =
                          IF given("tunnel_type") /\ d.tunnel_type # ""
                          THEN d.tunnel_type ELSE "fullmesh"
                   /\ row.tunnel_backup =
                          IF given("tunnel_backup") /\ d.tunnel_backup # ""
                          THEN d.tunnel_backup ELSE "frr"
                   /\ row.qos =
                          IF given("qos") /\ d.qos # ""
                          THEN d.qos ELSE "Gold"
                   /\ row.bandwidth =
                          IF given("bandwidth") /\ d.bandwidth # 0
                          THEN d.bandwidth ELSE 10

\* tunnel_options = {qos: "Silver", tunnel_type: ""}: qos is Silver, the
\* other three are the defaults
C11_Witness ==
    /\ Done("create_mplsvpn") /\ S.err = "none"
    /\ S.args.has_tunnel_options
    /\ DOMAIN S.args.tunnel_options = {"qos", "tunnel_type"}
    /\ S.args.tunnel_options.tunnel_type = ""
    /\ \E row \in db.mplsvpns :
           /\ row.id = S.ret /\ row.qos = "Silver"
           /\ row.tunnel_type = "fullmesh" /\ row.tunnel_backup = "frr"
           /\ row.bandwidth = 10

\* C12: in every state the requests served one after the other can reach,
\* no two rows of acmplsvpnassociations have the same (mplsvpn_id,
\* attachmentcircuit_id) and no two rows of acnetworkassociations have the
\* same (attachmentcircuit_id, network_id); a list that names a child key
\* more than once gets one row for it, the repeated key inserts nothing.
C12_PairUnique ==
    /\ \A a, b \in db.acmplsvpnassociations :
           ( /\ a.mplsvpn_id = b.mplsvpn_id
             /\ a.attachmentcircuit_id = b.attachmentcircuit_id ) => a = b
    /\ \A a, b \in db.acnetworkassociations :
           ( /\ a.attachmentcircuit_id = b.attachmentcircuit_id
             /\ a.network_id = b.network_id ) => a = b
    /\ ( /\ S.pc = "done" /\ S.err = "none"
         /\ \/ S.args.op \in Creates
            \/ S.args.op \in Updates /\ S.args.has_list ) =>
           /\ S.nins <= Cardinality(Range(S.args.list))
           /\ Cardinality(AssocsOf(db, ModelOf(S.args.op), S.ret)) =
                  Cardinality(Range(S.args.list))

\* update_mplsvpn with attachment_circuits = [c, c] on a VPN with no
\* association: one row was inserted
C12_Witness ==
    /\ Reconciles /\ S.args.op = "update_mplsvpn" /\ S.err = "none"
    /\ Len(S.args.list) = 2 /\ S.args.list[1] = S.args.list[2]
    /\ S.nins = 1
    /\ Cardinality(AssocsOf(db, "mplsvpns", S.args.id)) = 1

\* the index of the first element of a list that is not in a set (0: none)
FirstMissing(list, stored) ==
    IF \A k \in 1..Len(list) : list[k] \in stored THEN 0
    ELSE CHOOSE k \in 1..Len(list) :
             /\ list[k] \notin stored
             /\ \A j \in 1..(k - 1) : list[j] \in stored

\* C13: a reconcile (in an update of a stored parent, or in a create that
\* got to insert its parent row) whose list names a child id that is not
\* stored raises the storage layer's IntegrityError for that child, never a
\* NotFound or Duplicate error, and it raises it at the insert: the rows of
\* the keys listed before the missing one were inserted first.  Nothing is
\* committed.
C13_LateFailure ==
    LET model == ModelOf(S.args.op)
        stored == Ids(S.pre[ChildTable(model)])
        k == FirstMissing(S.args.list, stored)
        had == IF S.args.op \in Updates
               THEN ChildKeys(S.pre, model, S.args.id) ELSE {}
        reached ==
            \/ /\ S.args.op \in Updates /\ S.args.has_list
               /\ S.args.id \in Ids(S.pre[model])
            \/ /\ S.args.op = "create_mplsvpn"
               /\ \A r \in S.pre.mplsvpns : r.tenant_id # S.args.tenant_id
            \/ /\ S.args.op = "create_attachment_circuit"
               /\ \A r \in S.pre.attachmentcircuits :
                      r.tenant_id # S.args.tenant_id
               /\ S.args.provider_edge_id \in Ids(S.pre.provideredges)
    IN  (S.pc = "done" /\ reached /\ k # 0) =>
            /\ S.err = "IntegrityError"
            /\ S.err_id = S.args.list[k]
            /\ S.nins = Cardinality({S.args.list[j] : j \in 1..(k - 1)} \ had)
            /\ db = S.pre

\* update_mplsvpn with a stored circuit and then a missing one: the row of
\* the stored circuit was inserted before the insert that failed
C13_Witness ==
    /\ Done("update_mplsvpn") /\ S.args.has_list
    /\ S.err = "IntegrityError" /\ S.nins = 1
    /\ Len(S.args.list) = 2
    /\ S.args.list[1] \in Ids(db.attachmentcircuits)
    /\ S.args.list[2] \notin Ids(db.attachmentcircuits)
    /\ S.err_id = S.args.list[2]

C15_ProviderEdgeReference ==
    /\ \A ac \in db.attachmentcircuits :
           ac.provider_edge_id \in Ids(db.provideredges)
    /\ ( /\ Done("delete_provider_edge")
         /\ \E ac \in S.pre.attachmentcircuits :
                ac.provider_edge_id = S.args.id ) =>
           /\ S.err = "IntegrityError"
           /\ db = S.pre
    /\ ( /\ Done("create_attachment_circuit")
         /\ S.args.provider_edge_id \notin Ids(S.pre.provideredges) ) =>
           /\ S.err # "none"
           /\ db = S.pre

\* delete_provider_edge of the edge of a stored circuit: rejected, the
\* circuit and the edge are still stored
C15_Witness ==
    /\ Done("delete_provider_edge") /\ S.err = "IntegrityError"
    /\ \E ac \in db.attachmentcircuits :
           /\ ac.provider_edge_id = S.args.id
           /\ S.args.id \in Ids(db.provideredges)

\* C16: update_mplsvpn_status_and_name of a stored VPN returns normally and
\* the tables differ from the tables before it in that VPN's row only, whose
\* name and status are the payload's and whose id, tenant_id, vpn_id and
\* tunnel columns are as before; of an id that is not stored, it raises
\* MPLSVPNNotFound with that id and the tables are as before.
C16_StatusAndNameFrame ==
    Done("update_mplsvpn_status_and_name") =>
        LET old == {r \in S.pre.mplsvpns : r.id = S.args.id}
        IN  IF old = {}
            THEN /\ S.err = "MPLSVPNNotFound"
                 /\ S.err_id = S.args.id
                 /\ db = S.pre
            ELSE /\ S.err = "none"
                 /\ S.ret = S.args.id
                 /\ db = [S.pre EXCEPT !.mplsvpns =
                             (@ \ old) \cup
                             {MPLSVPN(r.id, r.tenant_id, S.args.name,
                                      r.tunnel_type, r.tunnel_backup, r.qos,
                                      r.bandwidth, S.args.status, r.vpn_id) :
                                  r \in old}]

\* the VPN of a tenant, with two attachment circuits and another VPN
\* stored, went from PENDING_CREATE to ACTIVE under a new name
C16_Witness ==
    /\ Done("update_mplsvpn_status_and_name") /\ S.err = "none"
    /\ Cardinality(AssocsOf(db, "mplsvpns", S.args.id)) = 2
    /\ Cardinality(db.mplsvpns) = 2
    /\ \E r \in S.pre.mplsvpns :
           /\ r.id = S.args.id /\ r.status = PENDING_CREATE
           /\ r.name # S.args.name
    /\ \E r \in db.mplsvpns :
           /\ r.id = S.args.id /\ r.status = ACTIVE
           /\ r.name = S.args.name

\* the rows of a tenant in the table of a model
RowsOfTenant(tables, model, t) == {r \in tables[model] : r.tenant_id = t}

\* C17: the existence query of a create is outside the transaction of its
\* insert and locks nothing.  A create_mplsvpn or create_attachment_circuit
\* that is past its query adds its row whatever has been committed for the
\* tenant since (it is not rejected as a duplicate), so two creates for one
\* tenant that both ran the query before either inserted both return
\* normally, and once both have there are two rows for the tenant.
C17_SingletonRace ==
    /\ [][\A s \in Sessions :
             ( /\ sess[s].args.op \in Creates
               /\ sess[s].pc = "c_add"
               /\ sess'[s] # sess[s]
               /\ sess[s].args.op = "create_attachment_circuit" =>
                      sess[s].args.provider_edge_id \in Ids(db.provideredges) )
             => /\ sess'[s].err = "none"
                /\ sess'[s].pc = "rc_all"
                /\ sess'[s].ret \in
                       Ids(View(sess'[s], db')[ModelOf(sess[s].args.op)])]_vars
    /\ [](\A s, o \in Sessions :
             ( /\ s # o
               /\ sess[s].pc = "done" /\ sess[o].pc = "done"
               /\ sess[s].args.op \in Creates
               /\ sess[o].args = sess[s].args
               /\ sess[s].err = "none" /\ sess[o].err = "none" )
             => /\ sess[s].ret # sess[o].ret
                /\ {sess[s].ret, sess[o].ret} \subseteq
                       Ids(RowsOfTenant(db, ModelOf(sess[s].args.op),
                                        sess[s].args.tenant_id)))

\* two create_mplsvpn for one tenant, each of which found no VPN of the
\* tenant when it arrived, have both returned: the tenant has two VPNs
C17_Witness ==
    /\ \A s \in Sessions :
           /\ sess[s].pc = "done" /\ sess[s].err = "none"
           /\ sess[s].args.op = "create_mplsvpn"
           /\ sess[s].args.tenant_id = "t1"
           /\ RowsOfTenant(sess[s].pre, "mplsvpns", "t1") = {}
    /\ Cardinality(RowsOfTenant(db, "mplsvpns", "t1")) = 2

\* the same for two create_attachment_circuit
C17_WitnessCircuit ==
    /\ \A s \in Sessions :
           /\ sess[s].pc = "done" /\ sess[s].err = "none"
           /\ sess[s].args.op = "create_attachment_circuit"
           /\ sess[s].args.tenant_id = "t1"
           /\ RowsOfTenant(sess[s].pre, "attachmentcircuits", "t1") = {}
    /\ Cardinality(RowsOfTenant(db, "attachmentcircuits", "t1")) = 2

\* two update requests with a list for the same parent, both answered
Raced(s, o) ==
    /\ s # o
    /\ sess[s].pc = "done" /\ sess[o].pc = "done"
    /\ sess[s].args.op \in Updates /\ sess[o].args.op = sess[s].args.op
    /\ sess[s].args.id = sess[o].args.id
    /\ sess[s].args.has_list /\ sess[o].args.has_list

\* no two rows of parent p have the same child key
NoPairTwice(tables, model, p) ==
    \A a, b \in AssocsOf(tables, model, p) :
        a[Relationship(model).child] = b[Relationship(model).child] => a = b

C19_AssociationIntegrity ==
    /\ \A a \in db.acmplsvpnassociations :
           /\ a.mplsvpn_id \in Ids(db.mplsvpns)
           /\ a.attachmentcircuit_id \in Ids(db.attachmentcircuits)
    /\ ( /\ S.pc = "done" /\ S.err = "none"
         /\ S.args.op \in {"get_mplsvpn", "update_mplsvpn",
                            "create_mplsvpn",
                            "update_mplsvpn_status_and_name"} ) =>
           ChildKeys(db, "mplsvpns", S.ret) \subseteq
               Ids(db.attachmentcircuits)
    /\ ( /\ Done("delete_attachment_circuit")
         /\ \E a \in S.pre.acmplsvpnassociations :
                a.attachmentcircuit_id = S.args.id ) =>
           /\ S.err = "IntegrityError"
           /\ db = S.pre

\* delete_attachment_circuit of a circuit with a network that is a member
\* of a VPN: rejected, the circuit and all its rows are still stored
C19_Witness ==
    /\ Done("delete_attachment_circuit") /\ S.err = "IntegrityError"
    /\ S.args.id \in Ids(db.attachmentcircuits)
    /\ \E a \in db.acmplsvpnassociations :
           a.attachmentcircuit_id = S.args.id
    /\ AssocsOf(db, "attachmentcircuits", S.args.id) # {}

\* C20: a reconcile of parent p, whether it returns or raises, leaves every
\* association row of the relationship whose parent is not p as it was
\* (also a row that names a child p had or gets), leaves the other
\* association table as it was, and leaves every entity row as it was (in a
\* create, but for the parent row just inserted).
C20_ReconcileScoped ==
    ( /\ S.pc = "done"
      /\ \/ S.args.op \in Updates /\ S.args.has_list
         \/ S.args.op \in Creates ) =>
        LET model == ModelOf(S.args.op)
            rel == Relationship(model)
            p == IF S.args.op \in Updates THEN S.args.id ELSE S.ret
            others(tables) == {a \in tables[rel.table] : a[rel.parent] # p}
        IN  /\ others(db) = others(S.pre)
            /\ \A t \in Tables \ {rel.table, model} : db[t] = S.pre[t]
            /\ IF S.args.op \in Updates THEN db[model] = S.pre[model]
               ELSE {r \in db[model] : r.id # p} = S.pre[model]

\* update_mplsvpn took a circuit out of a VPN while another VPN has the
\* same circuit: the other VPN's row is still there
C20_Witness ==
    /\ Reconciles /\ S.args.op = "update_mplsvpn" /\ S.err = "none"
    /\ S.ndel > 0
    /\ \E a \in db.acmplsvpnassociations :
           /\ a.mplsvpn_id # S.args.id
           /\ a.attachmentcircuit_id \in
                  ChildKeys(S.pre, "mplsvpns", S.args.id)
           /\ a.attachmentcircuit_id \notin Range(S.args.list)

\* the tunnel columns of a VPN row
TunnelOf(r) == <<r.tunnel_type, r.tunnel_backup, r.qos, r.bandwidth>>

\* C21: in every step, (1) a VPN row that appears has status PENDING_CREATE;
\* (2) a VPN row that stays keeps its tenant_id, vpn_id and tunnel columns,
\* and keeps its status and name unless the step is an
\* update_mplsvpn_status_and_name of that VPN returning normally, so
\* update_mplsvpn and the reconciles change none of them whatever name and
\* status the payload carries; (3) an association row that appears has
\* status ACTIVE; (4) an update_mplsvpn without attachment_circuits deletes
\* nothing, inserts nothing and leaves the tables as they were.
C21_StatusOwnership ==
    [][ /\ \A r \in db'.mplsvpns :
              r.id \notin Ids(db.mplsvpns) => r.status = PENDING_CREATE
        /\ \A r \in db.mplsvpns, q \in db'.mplsvpns :
              r.id = q.id =>
                  /\ q.tenant_id = r.tenant_id /\ q.vpn_id = r.vpn_id
                  /\ TunnelOf(q) = TunnelOf(r)
                  /\ (q.status # r.status \/ q.name # r.name) =>
                         /\ sess'["s1"].pc = "done"
                         /\ sess'["s1"].err = "none"
                         /\ sess'["s1"].args.op =
                                "update_mplsvpn_status_and_name"
                         /\ sess'["s1"].args.id = r.id
                         /\ sess["s1"].pc = "idle"
        /\ \A tbl \in {"acmplsvpnassociations", "acnetworkassociations"} :
              \A a \in db'[tbl] :
                  a.id \notin Ids(db[tbl]) => a.status = ACTIVE
        /\ ( /\ sess'["s1"] # sess["s1"]
             /\ sess'["s1"].pc = "done"
             /\ sess'["s1"].args.op = "update_mplsvpn"
             /\ ~sess'["s1"].args.has_list ) =>
               /\ db' = db
               /\ sess'["s1"].ndel = 0 /\ sess'["s1"].nins = 0 ]_vars

\* update_mplsvpn with attachment_circuits, a name and a status returned
\* normally after inserting a row: the VPN is still PENDING_CREATE under
\* its own name, and the rows of the VPN are ACTIVE
C21_Witness ==
    /\ Done("update_mplsvpn") /\ S.err = "none" /\ S.args.has_list
    /\ S.args.name = "n" /\ S.args.status = DOWN
    /\ S.nins > 0
    /\ \E r \in db.mplsvpns :
           /\ r.id = S.args.id /\ r.status = PENDING_CREATE
           /\ r.name = "v"
    /\ \A a \in AssocsOf(db, "mplsvpns", S.args.id) : a.status = ACTIVE

====
